---- MODULE Spec2Model ----
(***************************************************************************)
(* The hanging-bulb rope of Night-mode: the Verlet rope of utils/physics   *)
(* (createRope, updatePhysics, resolveStick) and the interaction code of   *)
(* BulbScene (render: snag, winch, updatePhysics; handlePointerDown,       *)
(* handlePointerMove, handlePointerUp) with the hammer toggle of App.       *)
(*                                                                         *)
(* Numbers.  The program computes in IEEE doubles.  The model computes on  *)
(* a fixed-point grid of 1/SCALE pixel: a coordinate or a length is an     *)
(* integer count of grid units, +/- are exact, and every product or        *)
(* quotient that the code assigns is rounded to the nearest grid unit      *)
(* (RoundDiv), the square root downwards (Sqrt).  Points and sticks keep   *)
(* the code's 0-based indices; a stick's p1/p2 object references are the   *)
(* indices of the points they alias.                                       *)
(***************************************************************************)
EXTENDS Integers, FiniteSets, Sequences, TLC

VARIABLES
  ropeRef,       \* ropeRef.current: [points, sticks, iterations]
  dragRef,       \* dragRef.current: [isDragging, pointIndex]
  mouseRef,      \* mouseRef.current: [x, y]
  mountRef,      \* mountRef.current: [set, x, y]; set = FALSE is null
  isHammerMode,  \* App state, prop of BulbScene
  args,          \* the arguments createRope was (or will be) called with
  pc,            \* "args" before createRope, "created" after it, "running" once mounted
  frames,        \* number of animation frames run so far
  snagAt,        \* history: where the snag phase pinned each point
  log            \* history: the last handler and the phases of the last frame

vars == <<ropeRef, dragRef, mouseRef, mountRef, isHammerMode, args, pc, frames, snagAt, log>>

(***************************************************************************)
(* Bounds of the model                                                     *)
(***************************************************************************)
SCALE == 10          \* grid units per pixel
Width == 300         \* canvas.width in pixels
Height == 100        \* canvas.height in pixels
MaxSegments == 3     \* largest segment count of the mounted rope
MaxFrames == 2       \* animation frames explored

(***************************************************************************)
(* Program constants                                                       *)
(***************************************************************************)
GRAVITY == <<1, 2>>            \* 0.5
FRICTION == <<99, 100>>        \* 0.99
GROUND_FRICTION == <<1, 2>>    \* 0.5
WALL_BOUNCE == <<1, 2>>        \* 0.5
ITERATIONS == 600
BULB_RADIUS == 30
SNAG_THRESHOLD == 25
SECURE_THRESHOLD == 40
GRAB_THRESHOLD == 60
IMPULSE == 50
NULL == -1                     \* pointIndex: null

(***************************************************************************)
(* Arithmetic on the grid                                                  *)
(***************************************************************************)
Px(n) == n * SCALE

\* a / b rounded to the nearest integer (b > 0), halves upwards
RoundDiv(a, b) == (2 * a + b) \div (2 * b)

\* v * c for a constant c = <<numerator, denominator>>
Times(v, c) == RoundDiv(v * c[1], c[2])

RECURSIVE SqrtIter(_, _)
SqrtIter(n, g) ==
  LET h == (g + n \div g) \div 2
  IN IF h >= g THEN g ELSE SqrtIter(n, h)

\* Math.sqrt, rounded down to the grid
Sqrt(n) == IF n = 0 THEN 0 ELSE SqrtIter(n, n)

\* Math.hypot(dx, dy) < r pixels
HypotLess(dx, dy, r) == dx * dx + dy * dy < Px(r) * Px(r)

NumPoints(rope) == Cardinality(DOMAIN rope.points)
NumSticks(rope) == Cardinality(DOMAIN rope.sticks)

(***************************************************************************)
(* utils/physics: createRope                                               *)
(***************************************************************************)
\* Variant: the previous position of every point is the start position
createRope_StaleOld(startX, startY, segments, segmentLength) ==
  [ points |-> [i \in 0 .. segments - 1 |->
                  [ x |-> startX,
                    y |-> startY + i * segmentLength,
                    oldx |-> startX,
                    oldy |-> startY,
                    pinned |-> (i = 0) ]],
    sticks |-> [i \in 0 .. segments - 2 |->
                  [ p1 |-> i, p2 |-> i + 1, length |-> segmentLength ]],
    iterations |-> ITERATIONS ]

createRope(startX, startY, segments, segmentLength) ==
  [ points |-> [i \in 0 .. segments - 1 |->
                  [ x |-> startX,
                    y |-> startY + i * segmentLength,
                    oldx |-> startX,
                    oldy |-> startY + i * segmentLength,
                    pinned |-> (i = 0) ]],
    sticks |-> [i \in 0 .. segments - 2 |->
                  [ p1 |-> i, p2 |-> i + 1, length |-> segmentLength ]],
    iterations |-> ITERATIONS ]

(***************************************************************************)
(* utils/physics: updatePhysics, first loop (Verlet integration and the    *)
(* box collision of every unpinned point)                                  *)
(***************************************************************************)
\* Variant: the floor clamps y and applies friction but keeps the vertical velocity
floorCollision_NoStop(p, floorY) ==
  IF p.y > floorY
    THEN [p EXCEPT !.y = floorY,
                   !.oldx = p.x - Times(p.x - p.oldx, GROUND_FRICTION)]
    ELSE p

\* Floor: clamp y, apply ground friction to the horizontal velocity, stop
\* the vertical motion
floorCollision(p, floorY) ==
  IF p.y > floorY
    THEN LET currentVx == p.x - p.oldx
         IN [p EXCEPT !.y = floorY,
                      !.oldx = p.x - Times(currentVx, GROUND_FRICTION),
                      !.oldy = floorY]
    ELSE p

\* Walls: clamp x and reflect the horizontal velocity, damped
wallCollision(p, leftWall, rightWall) ==
  IF p.x < leftWall
    THEN [p EXCEPT !.x = leftWall,
                   !.oldx = leftWall + Times(leftWall - p.oldx, WALL_BOUNCE)]
    ELSE IF p.x > rightWall
      THEN [p EXCEPT !.x = rightWall,
                     !.oldx = rightWall + Times(rightWall - p.oldx, WALL_BOUNCE)]
      ELSE p

\* Verlet step of one unpinned point, before the collisions
verlet(p) ==
  LET vx == Times(p.x - p.oldx, FRICTION)
      vy == Times(p.y - p.oldy, FRICTION)
  IN [p EXCEPT !.oldx = p.x,
               !.oldy = p.y,
               !.x = p.x + vx,
               !.y = p.y + vy + Times(Px(1), GRAVITY)]

\* Body of the first loop for point i of n
integratePoint(p, i, n, width, height, bulbRadius) ==
  IF p.pinned
    THEN p
    ELSE LET r == IF i = n - 1 THEN bulbRadius ELSE 0
         IN wallCollision(floorCollision(verlet(p), height - r), r, width - r)

integrate(system, width, height, bulbRadius) ==
  [i \in DOMAIN system.points |->
     integratePoint(system.points[i], i, NumPoints(system), width, height, bulbRadius)]

(***************************************************************************)
(* utils/physics: resolveStick and the constraint loop of updatePhysics    *)
(***************************************************************************)
\* Variant: the correction is shared whenever one of the two points is free
resolveStick_Shared(points, stick) ==
  LET p1 == points[stick.p1]
      p2 == points[stick.p2]
      dx == p2.x - p1.x
      dy == p2.y - p1.y
      distance == Sqrt(dx * dx + dy * dy)
      difference == stick.length - distance
      halfX == RoundDiv(dx * difference, 2 * distance)
      halfY == RoundDiv(dy * difference, 2 * distance)
  IN IF distance = 0 \/ (p1.pinned /\ p2.pinned) THEN points
     ELSE [points EXCEPT ![stick.p1].x = p1.x - halfX,
                         ![stick.p1].y = p1.y - halfY,
                         ![stick.p2].x = p2.x + halfX,
                         ![stick.p2].y = p2.y + halfY]

resolveStick(points, stick) ==
  LET p1 == points[stick.p1]
      p2 == points[stick.p2]
      dx == p2.x - p1.x
      dy == p2.y - p1.y
      distance == Sqrt(dx * dx + dy * dy)
      difference == stick.length - distance
      \* offset * 2 = d * difference / distance; offset = d * difference / distance / 2
      fullX == RoundDiv(dx * difference, distance)
      fullY == RoundDiv(dy * difference, distance)
      halfX == RoundDiv(dx * difference, 2 * distance)
      halfY == RoundDiv(dy * difference, 2 * distance)
  IN IF distance = 0 THEN points
     ELSE IF p1.pinned /\ ~p2.pinned
       THEN [points EXCEPT ![stick.p2].x = p2.x + fullX,
                           ![stick.p2].y = p2.y + fullY]
     ELSE IF ~p1.pinned /\ p2.pinned
       THEN [points EXCEPT ![stick.p1].x = p1.x - fullX,
                           ![stick.p1].y = p1.y - fullY]
     ELSE IF ~p1.pinned /\ ~p2.pinned
       THEN [points EXCEPT ![stick.p1].x = p1.x - halfX,
                           ![stick.p1].y = p1.y - halfY,
                           ![stick.p2].x = p2.x + halfX,
                           ![stick.p2].y = p2.y + halfY]
     ELSE points

RECURSIVE forwardPass(_, _, _)
forwardPass(points, sticks, i) ==
  IF i \notin DOMAIN sticks THEN points
  ELSE forwardPass(resolveStick(points, sticks[i]), sticks, i + 1)

RECURSIVE backwardPass(_, _, _)
backwardPass(points, sticks, i) ==
  IF i \notin DOMAIN sticks THEN points
  ELSE backwardPass(resolveStick(points, sticks[i]), sticks, i - 1)

\* j iterations of a forward and a backward pass.  An iteration that moves
\* no point is a fixed point of the remaining ones, which are skipped.
RECURSIVE constrainSticks(_, _, _)
constrainSticks(points, sticks, j) ==
  IF j = 0 THEN points
  ELSE LET q == backwardPass(forwardPass(points, sticks, 0), sticks,
                             Cardinality(DOMAIN sticks) - 1)
       IN IF q = points THEN points ELSE constrainSticks(q, sticks, j - 1)

updatePhysics(system, width, height, bulbRadius) ==
  [system EXCEPT !.points =
     constrainSticks(integrate(system, width, height, bulbRadius),
                     system.sticks, system.iterations)]

(***************************************************************************)
(* BulbScene render: 1. rope-peg collision (snag)                          *)
(***************************************************************************)
\* Variant: a pinned point that is no longer at the peg is released
snagPoint_Release(p, mount) ==
  IF HypotLess(p.x - mount.x, p.y - mount.y, SNAG_THRESHOLD)
    THEN [x |-> mount.x, y |-> mount.y, oldx |-> mount.x, oldy |-> mount.y,
          pinned |-> TRUE]
    ELSE [p EXCEPT !.pinned = FALSE]

\* Loop body for point p: an unpinned point closer than the threshold to the
\* peg is pinned at the peg with zero velocity
snagPoint(p, mount) ==
  IF p.pinned THEN p
  ELSE IF HypotLess(p.x - mount.x, p.y - mount.y, SNAG_THRESHOLD)
    THEN [x |-> mount.x, y |-> mount.y, oldx |-> mount.x, oldy |-> mount.y,
          pinned |-> TRUE]
    ELSE p

\* Variant: the snag check runs whenever a peg exists
snagGuard_NoDrag(mount, drag) == mount.set

snagGuard(mount, drag) == mount.set /\ drag.isDragging

snag(system, mount, drag) ==
  IF snagGuard(mount, drag)
    THEN [system EXCEPT !.points =
            [i \in DOMAIN system.points |->
               IF i < NumPoints(system) - 1
                 THEN snagPoint(system.points[i], mount)
                 ELSE system.points[i]]]
    ELSE system

(***************************************************************************)
(* BulbScene render: 2. winch                                              *)
(***************************************************************************)
\* Variant: the anchor is always the root
findAnchorIndex_Root(system) == 0

\* The last pinned point below the end point, point 0 if there is none
findAnchorIndex(system) ==
  LET pinnedBelow == {i \in DOMAIN system.points :
                        i <= NumPoints(system) - 2 /\ system.points[i].pinned}
  IN IF pinnedBelow = {} THEN 0
     ELSE CHOOSE i \in pinnedBelow : \A k \in pinnedBelow : k <= i

winchGuard(drag) == drag.isDragging /\ drag.pointIndex # NULL

\* Variant: the redistribution keeps the previous position
winchPoint_KeepOld(p, pointIndex, i, activeSegments, anchor, dx, dy, drag) ==
  [x |-> anchor.x + RoundDiv(dx * i, activeSegments),
   y |-> anchor.y + RoundDiv(dy * i, activeSegments),
   oldx |-> p.oldx, oldy |-> p.oldy,
   pinned |-> IF pointIndex = drag.pointIndex THEN TRUE ELSE p.pinned]

\* Redistribution of point anchorIndex + i on the line from the anchor to the mouse
winchPoint(p, pointIndex, i, activeSegments, anchor, dx, dy, drag) ==
  LET targetX == anchor.x + RoundDiv(dx * i, activeSegments)
      targetY == anchor.y + RoundDiv(dy * i, activeSegments)
  IN [x |-> targetX, y |-> targetY, oldx |-> targetX, oldy |-> targetY,
      pinned |-> IF pointIndex = drag.pointIndex THEN TRUE ELSE p.pinned]

\* Variant: the sticks above the anchor are dropped
winchSticks_Drop(sticks, anchorIndex, newSegmentLength) ==
  [i \in {k \in DOMAIN sticks : k >= anchorIndex} |->
     [sticks[i] EXCEPT !.length = newSegmentLength]]

\* Variant: every stick of the rope gets the new length
winchSticks_All(sticks, anchorIndex, newSegmentLength) ==
  [i \in DOMAIN sticks |-> [sticks[i] EXCEPT !.length = newSegmentLength]]

\* "Apply new length": every stick from the anchor on gets the new length
winchSticks(sticks, anchorIndex, newSegmentLength) ==
  [i \in DOMAIN sticks |->
     IF i >= anchorIndex
       THEN [sticks[i] EXCEPT !.length = newSegmentLength]
       ELSE sticks[i]]

winch(system, drag, mouse) ==
  IF winchGuard(drag)
    THEN LET anchorIndex == findAnchorIndex(system)
             anchor == system.points[anchorIndex]
             dx == mouse.x - anchor.x
             dy == mouse.y - anchor.y
             distToAnchor == Sqrt(dx * dx + dy * dy)
             activeSegments == (NumPoints(system) - 1) - anchorIndex
             newSegmentLength == RoundDiv(distToAnchor, activeSegments)
         IN IF activeSegments > 0
              THEN [system EXCEPT
                      !.sticks = winchSticks(system.sticks, anchorIndex, newSegmentLength),
                      !.points = [k \in DOMAIN system.points |->
                                    IF k > anchorIndex
                                      THEN winchPoint(system.points[k], k, k - anchorIndex,
                                                      activeSegments, anchor, dx, dy, drag)
                                      ELSE system.points[k]]]
              ELSE system
    ELSE system

(***************************************************************************)
(* State                                                                   *)
(***************************************************************************)

\* Pointer positions explored: on point 0 of the rope, below the hanging
\* end, and beside the rope
MousePositions ==
  { [x |-> Times(Px(Width), <<7, 10>>), y |-> 0],
    [x |-> Times(Px(Width), <<7, 10>>), y |-> Px(75)],
    [x |-> Times(Px(Width), <<7, 10>>) - Px(10), y |-> Px(30)] }

NoMount == [set |-> FALSE, x |-> 0, y |-> 0]
NoDrag == [isDragging |-> FALSE, pointIndex |-> NULL]
NoSnag(system) == [i \in DOMAIN system.points |-> NoMount]

Entry(op, before, drag, snagged, winched, integrated) ==
  [op |-> op, before |-> before, dragging |-> drag.isDragging,
   snagged |-> snagged, anchorIndex |-> findAnchorIndex(snagged),
   winched |-> winched, integrated |-> integrated]

Event(op, before, drag) == Entry(op, before, drag, before, before, before.points)

\* The "Initialize Physics" effect: the rope hangs from (0.7 width, 0), its
\* segments share 0.6 height, and the end point gets a swing impulse
mountRope(segmentCount) ==
  LET startX == Times(Px(Width), <<7, 10>>)
      startY == 0
      targetLength == Times(Px(Height), <<6, 10>>)
      segmentLen == RoundDiv(targetLength, segmentCount)
      rope == createRope(startX, startY, segmentCount, segmentLen)
      last == NumPoints(rope) - 1
  IN [rope EXCEPT !.points[last].oldx = rope.points[last].x - Px(IMPULSE)]

Init ==
  \E segmentCount \in 1 .. MaxSegments :
    /\ ropeRef = mountRope(segmentCount)
    /\ args = [startX |-> Times(Px(Width), <<7, 10>>), startY |-> 0,
               segments |-> segmentCount,
               segmentLength |-> RoundDiv(Times(Px(Height), <<6, 10>>), segmentCount)]
    /\ dragRef = NoDrag
    /\ mouseRef = [x |-> 0, y |-> 0]
    /\ mountRef = NoMount
    /\ isHammerMode = FALSE
    /\ pc = "running"
    /\ frames = 0
    /\ snagAt = NoSnag(ropeRef)
    /\ log = Event("init", ropeRef, dragRef)

(***************************************************************************)
(* The animation frame: render                                             *)
(***************************************************************************)
render ==
  /\ pc = "running"
  /\ frames < MaxFrames
  /\ LET snagged == snag(ropeRef, mountRef, dragRef)
         winched == winch(snagged, dragRef, mouseRef)
         integrated == integrate(winched, Px(Width), Px(Height), Px(BULB_RADIUS))
         after == updatePhysics(winched, Px(Width), Px(Height), Px(BULB_RADIUS))
     IN /\ ropeRef' = after
        /\ snagAt' = [i \in DOMAIN snagAt |->
                        IF ~ropeRef.points[i].pinned /\ snagged.points[i].pinned
                          THEN [set |-> TRUE, x |-> mountRef.x, y |-> mountRef.y]
                          ELSE snagAt[i]]
        /\ log' = Entry("render", ropeRef, dragRef, snagged, winched, integrated)
  /\ frames' = frames + 1
  /\ UNCHANGED <<dragRef, mouseRef, mountRef, isHammerMode, args, pc>>

(***************************************************************************)
(* Input handlers                                                          *)
(***************************************************************************)
toggleHammer ==
  /\ pc = "running"
  /\ isHammerMode' = ~isHammerMode
  /\ log' = Event("toggleHammer", ropeRef, dragRef)
  /\ UNCHANGED <<ropeRef, dragRef, mouseRef, mountRef, args, pc, frames, snagAt>>

handlePointerDown(pos) ==
  /\ pc = "running"
  /\ mouseRef' = pos
  /\ log' = Event("handlePointerDown", ropeRef, dragRef)
  /\ IF isHammerMode
       THEN \* place peg mode
            /\ mountRef' = [set |-> TRUE, x |-> pos.x, y |-> pos.y]
            /\ isHammerMode' = FALSE
            /\ UNCHANGED <<ropeRef, dragRef>>
       ELSE \* drag mode
            LET last == NumPoints(ropeRef) - 1
                endPoint == ropeRef.points[last]
            IN /\ IF HypotLess(pos.x - endPoint.x, pos.y - endPoint.y, GRAB_THRESHOLD)
                    THEN /\ dragRef' = [isDragging |-> TRUE, pointIndex |-> last]
                         /\ ropeRef' = [ropeRef EXCEPT !.points[last].pinned = TRUE]
                    ELSE UNCHANGED <<ropeRef, dragRef>>
               /\ UNCHANGED <<mountRef, isHammerMode>>
  /\ UNCHANGED <<args, pc, frames, snagAt>>

handlePointerMove(pos) ==
  /\ pc = "running"
  /\ mouseRef' = pos
  /\ log' = Event("handlePointerMove", ropeRef, dragRef)
  /\ UNCHANGED <<ropeRef, dragRef, mountRef, isHammerMode, args, pc, frames, snagAt>>

\* Variant: the release secures within the snag threshold only
releasePoint_SnagThreshold(lastPt, mount) ==
  IF mount.set /\ HypotLess(lastPt.x - mount.x, lastPt.y - mount.y, SNAG_THRESHOLD)
    THEN [lastPt EXCEPT !.pinned = TRUE, !.x = mount.x, !.y = mount.y]
    ELSE [lastPt EXCEPT !.pinned = FALSE]

\* The end point on release: secured on the peg, or unpinned
releasePoint(lastPt, mount) ==
  IF mount.set /\ HypotLess(lastPt.x - mount.x, lastPt.y - mount.y, SECURE_THRESHOLD)
    THEN [lastPt EXCEPT !.pinned = TRUE, !.x = mount.x, !.y = mount.y]
    ELSE [lastPt EXCEPT !.pinned = FALSE]

handlePointerUp ==
  /\ pc = "running"
  /\ IF dragRef.isDragging /\ dragRef.pointIndex # NULL
       THEN LET last == NumPoints(ropeRef) - 1
            IN ropeRef' = [ropeRef EXCEPT
                             !.points[last] = releasePoint(ropeRef.points[last], mountRef)]
       ELSE UNCHANGED ropeRef
  /\ dragRef' = NoDrag
  /\ log' = Event("handlePointerUp", ropeRef, dragRef)
  /\ UNCHANGED <<mouseRef, mountRef, isHammerMode, args, pc, frames, snagAt>>

Next ==
  \/ render
  \/ toggleHammer
  \/ \E pos \in MousePositions : handlePointerDown(pos)
  \/ \E pos \in MousePositions : handlePointerMove(pos)
  \/ handlePointerUp

Spec == Init /\ [][Next]_vars

(***************************************************************************)
(* createRope on its own: the arguments are drawn, then the call is made   *)
(***************************************************************************)
NoRope == [points |-> [i \in {} |-> 0], sticks |-> [i \in {} |-> 0], iterations |-> 0]

CreateArgs ==
  [ startX : {0, Px(70), Px(210)},
    startY : {0, Px(10)},
    segments : 1 .. MaxSegments + 2,
    segmentLength : {1, Px(10), Px(25)} ]

InitCreate ==
  /\ args \in CreateArgs
  /\ pc = "args"
  /\ ropeRef = NoRope
  /\ dragRef = NoDrag
  /\ mouseRef = [x |-> 0, y |-> 0]
  /\ mountRef = NoMount
  /\ isHammerMode = FALSE
  /\ frames = 0
  /\ snagAt = NoSnag(NoRope)
  /\ log = Event("init", NoRope, NoDrag)

callCreateRope ==
  /\ pc = "args"
  /\ ropeRef' = createRope(args.startX, args.startY, args.segments, args.segmentLength)
  /\ pc' = "created"
  /\ UNCHANGED <<dragRef, mouseRef, mountRef, isHammerMode, args, frames, snagAt, log>>

NextCreate == callCreateRope

SpecCreate == InitCreate /\ [][NextCreate]_vars

(***************************************************************************)
(* Properties                                                              *)
(***************************************************************************)
Last == NumPoints(ropeRef) - 1
Abs(n) == IF n < 0 THEN -n ELSE n
Rendered == pc = "running" /\ log.op = "render"

\* C1: in every state reached from createRope by pointer events, peg
\* placements and frames, the rope has the points it was created with and
\* one stick fewer, and stick i joins point i to point i + 1.
C1_Structure ==
  pc = "running" =>
    /\ DOMAIN ropeRef.points = 0 .. args.segments - 1
    /\ DOMAIN ropeRef.sticks = 0 .. NumPoints(ropeRef) - 2
    /\ \A i \in DOMAIN ropeRef.sticks :
         ropeRef.sticks[i].p1 = i /\ ropeRef.sticks[i].p2 = i + 1

\* A frame that ran snag and winch on a rope with an interior point
C1_Witness ==
  /\ Rendered /\ log.dragging /\ mountRef.set
  /\ NumPoints(ropeRef) >= 3
  /\ \E i \in DOMAIN snagAt : snagAt[i].set

\* C2: createRope(startX, startY, segmentCount, segmentLength) returns
\* segmentCount points, point i at (startX, startY + i * segmentLength) with
\* its previous position equal to its position, point 0 pinned and no
\* other, segmentCount - 1 sticks of length segmentLength, and 600 iterations.
C2_CreateRope ==
  pc = "created" =>
    /\ DOMAIN ropeRef.points = 0 .. args.segments - 1
    /\ \A i \in DOMAIN ropeRef.points :
         LET p == ropeRef.points[i]
         IN /\ p.x = args.startX
            /\ p.y = args.startY + i * args.segmentLength
            /\ p.oldx = p.x
            /\ p.oldy = p.y
            /\ p.pinned <=> (i = 0)
    /\ NumSticks(ropeRef) = args.segments - 1
    /\ \A i \in DOMAIN ropeRef.sticks : ropeRef.sticks[i].length = args.segmentLength
    /\ ropeRef.iterations = 600

\* createRope returned a rope with several points away from the origin
C2_Witness ==
  /\ pc = "created"
  /\ args.segments >= 4 /\ args.startY > 0 /\ args.startX > 0
  /\ NumPoints(ropeRef) = args.segments

\* C3: one call of updatePhysics leaves x, y, oldx and oldy of every point
\* that is pinned at the start of the call unchanged, after the integration
\* loop and after the constraint loop.
C3_PinnedUnmoved ==
  Rendered =>
    \A i \in DOMAIN ropeRef.points :
      log.winched.points[i].pinned =>
        /\ log.integrated[i] = log.winched.points[i]
        /\ ropeRef.points[i] = log.winched.points[i]

\* A call in which the constraint loop moved the free end of a stick whose
\* other end is pinned
C3_Witness ==
  /\ Rendered
  /\ \E i \in DOMAIN ropeRef.sticks :
       /\ log.winched.points[i].pinned # log.winched.points[i + 1].pinned
       /\ \/ ropeRef.points[i] # log.integrated[i]
          \/ ropeRef.points[i + 1] # log.integrated[i + 1]

\* C4: after the winch phase of a frame run while dragging, with anchor
\* index a, pointer position T and n = last - a > 0, every point a + i
\* (i in 1..n) is the grid point of anchor + (T - anchor) * i / n, the end
\* point is exactly at T, and each such point has oldx = x and oldy = y.
C4_WinchLine ==
  (Rendered /\ log.dragging /\ Last - log.anchorIndex > 0) =>
    LET a == log.anchorIndex
        n == Last - a
        anchor == log.winched.points[a]
    IN /\ \A i \in 1 .. n :
            LET p == log.winched.points[a + i]
            IN /\ 2 * Abs((p.x - anchor.x) * n - (mouseRef.x - anchor.x) * i) <= n
               /\ 2 * Abs((p.y - anchor.y) * n - (mouseRef.y - anchor.y) * i) <= n
               /\ p.oldx = p.x
               /\ p.oldy = p.y
       /\ log.winched.points[Last].x = mouseRef.x
       /\ log.winched.points[Last].y = mouseRef.y

\* The winch moved a sub-chain of two segments that was moving before
C4_Witness ==
  /\ Rendered /\ log.dragging
  /\ Last - log.anchorIndex >= 2
  /\ mouseRef # [x |-> log.winched.points[log.anchorIndex].x,
                 y |-> log.winched.points[log.anchorIndex].y]
  /\ \E i \in DOMAIN ropeRef.points :
       /\ i > log.anchorIndex
       /\ log.snagged.points[i].oldx # log.snagged.points[i].x
       /\ log.winched.points[i] # log.snagged.points[i]

\* C5: a point the snag phase pinned at the peg (ax, ay) stays pinned with
\* x = oldx = ax and y = oldy = ay in every later state, and a later snag
\* evaluation leaves it as it is.
C5_SnagStays ==
  pc = "running" =>
    \A i \in DOMAIN snagAt :
      snagAt[i].set =>
        /\ ropeRef.points[i] = [x |-> snagAt[i].x, y |-> snagAt[i].y,
                                oldx |-> snagAt[i].x, oldy |-> snagAt[i].y,
                                pinned |-> TRUE]
        /\ (Rendered /\ log.before.points[i].pinned) =>
              /\ log.snagged.points[i] = log.before.points[i]
              /\ log.winched.points[i] = log.before.points[i]

\* A later dragging frame, with the peg placed somewhere else, on a rope
\* with a point snagged in an earlier frame
C5_Witness ==
  /\ Rendered /\ log.dragging /\ mountRef.set
  /\ \E i \in DOMAIN snagAt :
       /\ snagAt[i].set
       /\ log.before.points[i].pinned
       /\ <<snagAt[i].x, snagAt[i].y>> # <<mountRef.x, mountRef.y>>

\* C6: pointer-up while dragging leaves the end point pinned at the peg
\* when a peg exists at distance < 40 from it, and unpinned otherwise; every
\* pointer-up ends with isDragging = false and pointIndex = null.
C6_PointerUp ==
  (pc = "running" /\ log.op = "handlePointerUp") =>
    LET lastBefore == log.before.points[Last]
        lastPt == ropeRef.points[Last]
        near == /\ mountRef.set
                /\ HypotLess(lastBefore.x - mountRef.x, lastBefore.y - mountRef.y, 40)
    IN /\ (log.dragging /\ near) =>
            lastPt.pinned /\ lastPt.x = mountRef.x /\ lastPt.y = mountRef.y
       /\ (log.dragging /\ ~near) => ~lastPt.pinned
       /\ dragRef.isDragging = FALSE
       /\ dragRef.pointIndex = NULL

\* A release that secured the end point on a peg it was not already on,
\* from further away than the snag threshold
C6_Witness ==
  /\ pc = "running" /\ log.op = "handlePointerUp" /\ log.dragging
  /\ mountRef.set
  /\ LET lastBefore == log.before.points[Last]
     IN /\ ~HypotLess(lastBefore.x - mountRef.x, lastBefore.y - mountRef.y, 25)
        /\ HypotLess(lastBefore.x - mountRef.x, lastBefore.y - mountRef.y, 40)
  /\ ropeRef.points[Last].pinned

\* C7: every stick has length > 0 at every frame boundary, whatever the
\* pointer events and frames before it, also when the pointer is on the
\* anchor point.
C7_LengthPositive ==
  pc = "running" =>
    \A i \in DOMAIN ropeRef.sticks : ropeRef.sticks[i].length > 0

\* C8: a frame run while not dragging runs neither snag nor winch: the
\* rope passed to updatePhysics is the rope the frame started with, and no
\* pinned flag and no stick changes in the frame.
C8_IdleFrame ==
  (Rendered /\ ~log.dragging) =>
    /\ log.snagged = log.before
    /\ log.winched = log.before
    /\ ropeRef.sticks = log.before.sticks
    /\ \A i \in DOMAIN ropeRef.points :
         ropeRef.points[i].pinned = log.before.points[i].pinned

\* An idle frame with a peg placed within the snag threshold of an
\* unpinned point below the end point
C8_Witness ==
  /\ Rendered /\ ~log.dragging /\ mountRef.set
  /\ \E i \in DOMAIN ropeRef.points :
       /\ i < Last
       /\ ~log.before.points[i].pinned
       /\ HypotLess(log.before.points[i].x - mountRef.x,
                    log.before.points[i].y - mountRef.y, 25)

\* The position of point i after the Verlet step, before the collisions,
\* and the radius the collisions give it
Integrated(i) == verlet(log.winched.points[i])
Radius(i) == IF i = Last THEN Px(BULB_RADIUS) ELSE 0
HitsFloor(i) ==
  /\ ~log.winched.points[i].pinned
  /\ Integrated(i).y > Px(Height) - Radius(i)
  /\ Integrated(i).x >= Radius(i)
  /\ Integrated(i).x <= Px(Width) - Radius(i)

\* C9: an unpinned point whose integrated y exceeds height - r and which
\* hits no wall in that step ends the integration with y = height - r,
\* oldy = y and x - oldx equal to half its horizontal velocity before the clamp.
C9_Floor ==
  Rendered =>
    \A i \in DOMAIN ropeRef.points :
      HitsFloor(i) =>
        LET q == log.integrated[i]
        IN /\ q.y = Px(Height) - Radius(i)
           /\ q.oldy = q.y
           /\ q.x - q.oldx = RoundDiv(Integrated(i).x - Integrated(i).oldx, 2)

\* A point that reached the floor while moving sideways and downwards
C9_Witness ==
  /\ Rendered
  /\ \E i \in DOMAIN ropeRef.points :
       /\ HitsFloor(i)
       /\ Integrated(i).x # Integrated(i).oldx
       /\ Integrated(i).oldy # Px(Height) - Radius(i)

\* C10: point 0 is pinned in every reachable state and never moves, for
\* every rope createRope returns, a rope of one point included.
C10_PointZeroFixed ==
  pc = "running" =>
    /\ ropeRef.points[0].pinned
    /\ ropeRef.points[0].x = args.startX
    /\ ropeRef.points[0].y = args.startY

\* The points below the end point that are pinned when the winch runs
PinnedBelowEnd == {i \in DOMAIN ropeRef.points : i < Last /\ log.snagged.points[i].pinned}

\* C11: in a frame run while dragging, the winch anchor is the highest
\* pinned point below the end point once the snag phase has run (point 0
\* if there is none); every stick from the anchor on gets the length
\* dist(anchor, pointer) / (last - anchor) and every stick before the anchor
\* keeps its length.
C11_WinchAnchor ==
  (Rendered /\ log.dragging) =>
    \E a \in DOMAIN ropeRef.points :
      /\ \/ a \in PinnedBelowEnd /\ \A k \in PinnedBelowEnd : k <= a
         \/ a = 0 /\ PinnedBelowEnd = {}
      /\ a = log.anchorIndex
      /\ LET anchor == log.snagged.points[a]
             dx == mouseRef.x - anchor.x
             dy == mouseRef.y - anchor.y
         IN \A i \in DOMAIN ropeRef.sticks :
              /\ i >= a =>
                   log.winched.sticks[i].length = RoundDiv(Sqrt(dx * dx + dy * dy), Last - a)
              /\ i < a =>
                   log.winched.sticks[i].length = log.before.sticks[i].length

\* A dragging frame whose anchor was snagged in the same frame, with a
\* stick before the anchor whose length differs from the new length
C11_Witness ==
  /\ Rendered /\ log.dragging
  /\ log.anchorIndex > 0
  /\ ~log.before.points[log.anchorIndex].pinned
  /\ log.snagged.points[log.anchorIndex].pinned
  /\ log.winched.sticks[0].length # log.winched.sticks[log.anchorIndex].length

\* C12: on a rope of at least 2 points, a point below the end point that
\* is pinned before a handler or a frame is pinned after it: no pointer
\* event and no frame unpins it, neither after the release of the drag nor
\* after the peg is placed elsewhere.
C12_PinPermanent ==
  (pc = "running" /\ NumPoints(ropeRef) >= 2) =>
    \A i \in DOMAIN ropeRef.points :
      (i < Last /\ log.before.points[i].pinned) => ropeRef.points[i].pinned

\* A dragging frame, with the peg placed elsewhere, on a rope with a point
\* between the ends that was snagged in an earlier frame
C12_Witness ==
  /\ Rendered /\ log.dragging /\ mountRef.set
  /\ \E i \in DOMAIN ropeRef.points :
       /\ 0 < i /\ i < Last
       /\ snagAt[i].set
       /\ log.before.points[i].pinned
       /\ ropeRef.points[i].pinned
       /\ ~HypotLess(snagAt[i].x - mountRef.x, snagAt[i].y - mountRef.y, 25)

\* C13: after a pointer-up that secures the end point at the peg
\* (distance < 40), the end point has no implicit velocity: its previous
\* position equals its position, which is the peg.  Stated for the ropes of
\* at least 2 points, whose end point is not point 0.
C13_SecuredAtRest ==
  (pc = "running" /\ log.op = "handlePointerUp" /\ log.dragging /\ mountRef.set
     /\ NumPoints(ropeRef) >= 2
     /\ HypotLess(log.before.points[Last].x - mountRef.x,
                  log.before.points[Last].y - mountRef.y, 40)) =>
    /\ ropeRef.points[Last].x = mountRef.x
    /\ ropeRef.points[Last].y = mountRef.y
    /\ ropeRef.points[Last].oldx = ropeRef.points[Last].x
    /\ ropeRef.points[Last].oldy = ropeRef.points[Last].y

====
